---- MODULE Spec2Model ----
(***************************************************************************)
(* A model of the handler generator of axum_oapi_generator                 *)
(* (src/src/generator.rs).  A text (Rust String / &str) is a sequence of   *)
(* one-character strings; an Option is a sequence of length at most one;   *)
(* a panic (unimplemented!, unwrap on None, expect on Err) is the result   *)
(* [ok |-> FALSE, err |-> kind].                                           *)
(***************************************************************************)
EXTENDS Naturals, Sequences, FiniteSets

VARIABLES doc, pc, pi, step, yielded, path_arguments, methods, origin,
          result, run, first_files, call, ret, yields, ncalls

vars == <<doc, pc, pi, step, yielded, path_arguments, methods, origin,
          result, run, first_files, call, ret, yields, ncalls>>

(***************************************************************************)
(* Bounds of the model.                                                    *)
(***************************************************************************)
\* The largest number of path entries of a document.
MaxPaths == 2
\* The largest number of MethodsIterator::next calls on one iterator.
MaxCalls == 10
\* The largest number of parameters of a list, where the lists are enumerated.
MaxParams == 2

(***************************************************************************)
(* Option, results and panics.                                             *)
(***************************************************************************)
None == <<>>
Some(x) == <<x>>
IsSome(o) == Len(o) = 1

Ok(v) == [ok |-> TRUE, val |-> v, err |-> "none"]
Panic(kind) == [ok |-> FALSE, val |-> <<>>, err |-> kind]

\* unimplemented!()
Unsupported == "Unsupported"
\* unwrap() of a reference that does not resolve (lines 121, 124, 126)
MissingReference == "MissingReference"
\* unwrap() of an absent operation_id (line 262)
MissingOperationId == "MissingOperationId"
\* expect("operation_name should be unique") (line 275)
DuplicateName == "DuplicateName"

(***************************************************************************)
(* Characters and texts.                                                   *)
(***************************************************************************)
LowerChars == <<"a","b","c","d","e","f","g","h","i","j","k","l","m",
                "n","o","p","q","r","s","t","u","v","w","x","y","z">>
UpperChars == <<"A","B","C","D","E","F","G","H","I","J","K","L","M",
                "N","O","P","Q","R","S","T","U","V","W","X","Y","Z">>
DigitChars == <<"0","1","2","3","4","5","6","7","8","9">>

IndexOf(c, s) == IF \E i \in 1..Len(s) : s[i] = c
                 THEN CHOOSE i \in 1..Len(s) : s[i] = c
                 ELSE 0

IsLower(c) == IndexOf(c, LowerChars) > 0
IsUpper(c) == IndexOf(c, UpperChars) > 0
IsAlnum(c) == IsLower(c) \/ IsUpper(c) \/ IndexOf(c, DigitChars) > 0

ToLowerChar(c) == IF IsUpper(c) THEN LowerChars[IndexOf(c, UpperChars)] ELSE c
ToUpperChar(c) == IF IsLower(c) THEN UpperChars[IndexOf(c, LowerChars)] ELSE c

\* str::to_uppercase / to_lowercase on the ASCII texts of the model
to_uppercase(s) == [i \in 1..Len(s) |-> ToUpperChar(s[i])]
to_lowercase(s) == [i \in 1..Len(s) |-> ToLowerChar(s[i])]

\* The code point of a character, for the byte order of String keys.
CharOrd(c) == IF IndexOf(c, DigitChars) > 0 THEN 47 + IndexOf(c, DigitChars)
              ELSE IF IsUpper(c) THEN 64 + IndexOf(c, UpperChars)
              ELSE IF c = "_" THEN 95
              ELSE IF IsLower(c) THEN 96 + IndexOf(c, LowerChars)
              ELSE IF c = "/" THEN 47
              ELSE 32

\* Ord for String: lexicographic by code point, a proper prefix first.
RECURSIVE StrLess(_, _)
StrLess(a, b) ==
    IF b = <<>> THEN FALSE
    ELSE IF a = <<>> THEN TRUE
    ELSE IF CharOrd(Head(a)) # CharOrd(Head(b))
         THEN CharOrd(Head(a)) < CharOrd(Head(b))
    ELSE StrLess(Tail(a), Tail(b))

\* The positions of a text at which a character of the set `cs` stands.
Positions(s, cs) == {i \in 1..Len(s) : s[i] \in cs}

\* str::split: the segments of `s` between the separators, which stand at
\* the positions `seps`; empty segments are kept.
Split(s, seps) ==
    LET \* the position of the k-th separator; 0 and Len(s) + 1 bound the text
        Sep(k) == IF k = 0 THEN 0
                  ELSE IF k > Cardinality(seps) THEN Len(s) + 1
                  ELSE CHOOSE i \in seps : Cardinality({j \in seps : j < i}) = k - 1
    IN  [k \in 1..(Cardinality(seps) + 1) |-> SubSeq(s, Sep(k - 1) + 1, Sep(k) - 1)]

RECURSIVE Flatten(_)
Flatten(ss) == IF ss = <<>> THEN <<>> ELSE Head(ss) \o Flatten(Tail(ss))

RECURSIVE Join(_, _)
Join(ss, sep) == IF ss = <<>> THEN <<>>
                 ELSE IF Len(ss) = 1 THEN Head(ss)
                 ELSE Head(ss) \o sep \o Join(Tail(ss), sep)

(***************************************************************************)
(* heck::ToSnakeCase (generator.rs line 3; used at lines 136, 201, 262).   *)
(* The text is split at every non-alphanumeric character; each piece is    *)
(* split again before an upper-case letter that follows a lower-case one   *)
(* (or a digit after one) and before the last upper-case letter of a run   *)
(* that a lower-case letter follows; the words are lower-cased and joined  *)
(* with "_", empty pieces giving no word.                                  *)
(***************************************************************************)
RECURSIVE SplitWord(_, _, _, _)
SplitWord(w, i, init, mode) ==
    IF i > Len(w) THEN <<>>
    ELSE IF i = Len(w) THEN <<SubSeq(w, init, Len(w))>>
    ELSE LET c == w[i]
             next == w[i + 1]
             next_mode == IF IsLower(c) THEN "Lowercase"
                          ELSE IF IsUpper(c) THEN "Uppercase"
                          ELSE mode
         IN  IF next_mode = "Lowercase" /\ IsUpper(next)
             THEN <<SubSeq(w, init, i)>> \o SplitWord(w, i + 1, i + 1, "Boundary")
             ELSE IF mode = "Uppercase" /\ IsUpper(c) /\ IsLower(next)
             THEN <<SubSeq(w, init, i - 1)>> \o SplitWord(w, i + 1, i, "Boundary")
             ELSE SplitWord(w, i + 1, init, next_mode)

SnakeWords(s) ==
    LET pieces == Split(s, {i \in 1..Len(s) : ~IsAlnum(s[i])})
    IN  Flatten([k \in 1..Len(pieces) |-> SplitWord(pieces[k], 1, 1, "Boundary")])

to_snake_case(s) ==
    LET ws == SnakeWords(s)
    IN  Join([k \in 1..Len(ws) |-> to_lowercase(ws[k])], <<"_">>)

(***************************************************************************)
(* textwrap::wrap(text, width) (used at line 168) on a text whose words    *)
(* are separated by single spaces: a word wider than the width is broken   *)
(* into pieces of the width, and the words fill each line as long as they  *)
(* fit.  The empty text wraps to one empty line.                           *)
(***************************************************************************)
RECURSIVE BreakWord(_, _)
BreakWord(w, width) ==
    IF Len(w) <= width THEN <<w>>
    ELSE <<SubSeq(w, 1, width)>> \o BreakWord(SubSeq(w, width + 1, Len(w)), width)

RECURSIVE FillLines(_, _, _)
FillLines(words, line, width) ==
    IF words = <<>> THEN <<line>>
    ELSE LET w == Head(words)
         IN  IF line = <<>> THEN FillLines(Tail(words), w, width)
             ELSE IF Len(line) + 1 + Len(w) <= width
                  THEN FillLines(Tail(words), line \o <<" ">> \o w, width)
             ELSE <<line>> \o FillLines(Tail(words), w, width)

wrap(text, width) ==
    LET words == Split(text, Positions(text, {" "}))
        pieces == Flatten([k \in 1..Len(words) |-> BreakWord(words[k], width)])
    IN  FillLines(pieces, <<>>, width)

(***************************************************************************)
(* The document (openapiv3::OpenAPI, imported at line 4).                  *)
(*   Parameter    [name, required, format], format one of ParamFormats     *)
(*   ReferenceOr  [kind |-> "Reference", reference] or                     *)
(*                [kind |-> "Item", item]                                  *)
(*   RequestBody  [content], the media types in the order of the map       *)
(*   Operation    [operation_id, summary, description, parameters,         *)
(*                 request_body]                                           *)
(*   PathItem     [parameters, ops], ops a function from PathItemMethods   *)
(*                to Option<Operation>                                     *)
(*   OpenAPI      [paths, components]: paths the sequence of               *)
(*                [name, entry] in the order of the map (unique names),    *)
(*                components an Option of [parameters], a function from    *)
(*                keys to ReferenceOr<Parameter>                           *)
(***************************************************************************)
ScalarFormats == {"String", "Number", "Integer", "Boolean"}
\* Type::Object, Type::Array, a schema that is a $ref, a SchemaKind other
\* than Type (oneOf, allOf, anyOf, not, any), ParameterSchemaOrContent::Content
NonScalarFormats == {"Object", "Array", "SchemaReference", "OtherSchemaKind", "Content"}
ParamFormats == ScalarFormats \cup NonScalarFormats

Item(x) == [kind |-> "Item", item |-> x, reference |-> <<>>]
Reference(r) == [kind |-> "Reference", item |-> <<>>, reference |-> r]

\* The operation fields of openapiv3::PathItem, in the order of its declaration.
PathItemMethods == <<<<"g","e","t">>, <<"p","u","t">>, <<"p","o","s","t">>,
                     <<"d","e","l","e","t","e">>,
                     <<"o","p","t","i","o","n","s">>, <<"h","e","a","d">>,
                     <<"p","a","t","c","h">>, <<"t","r","a","c","e">>>>
MethodSet == {PathItemMethods[i] : i \in 1..Len(PathItemMethods)}

(***************************************************************************)
(* get_parameter_type (lines 78-106).                                      *)
(***************************************************************************)
WrapOption(type) == "Option<" \o type \o ">"

get_parameter_type_ignoring_required(parameter) ==
    IF parameter.format \in ScalarFormats
    THEN Ok(CASE parameter.format = "String" -> "String"
              [] parameter.format = "Number" -> "f64"
              [] parameter.format = "Integer" -> "i64"
              [] parameter.format = "Boolean" -> "bool")
    ELSE Panic(Unsupported)

get_parameter_type(parameter) ==
    LET required == parameter.required
        type == CASE parameter.format = "String" -> Ok("String")
                  [] parameter.format = "Number" -> Ok("f64")
                  [] parameter.format = "Integer" -> Ok("i64")
                  [] parameter.format = "Object" -> Panic(Unsupported)
                  [] parameter.format = "Array" -> Panic(Unsupported)
                  [] parameter.format = "Boolean" -> Ok("bool")
                  [] parameter.format = "SchemaReference" -> Panic(Unsupported)
                  [] parameter.format = "OtherSchemaKind" -> Panic(Unsupported)
                  [] parameter.format = "Content" -> Panic(Unsupported)
    IN  IF ~type.ok THEN type
        ELSE IF required THEN Ok(type.val)
        ELSE Ok(WrapOption(type.val))

\* The first panic of a sequence of results, or the sequence of their values.
RECURSIVE FirstPanic(_)
FirstPanic(rs) == IF rs = <<>> THEN <<>>
                  ELSE IF ~Head(rs).ok THEN <<Head(rs)>>
                  ELSE FirstPanic(Tail(rs))

Collect(rs) == IF FirstPanic(rs) # <<>> THEN FirstPanic(rs)[1]
               ELSE Ok([i \in 1..Len(rs) |-> rs[i].val])

(***************************************************************************)
(* generate_path_args (lines 108-148).                                     *)
(***************************************************************************)
LastSegment(reference) ==
    LET s == Split(reference, Positions(reference, {"/"})) IN s[Len(s)]

\* lines 116-129: one reference of the shared-parameter list
ResolveFirstSegment(definition, reference) ==
    LET s == Split(reference, Positions(reference, {"/"}))
    IN  IF definition.components = None THEN Panic(MissingReference)
        ELSE IF s[1] \notin DOMAIN definition.components[1].parameters
             THEN Panic(MissingReference)
        ELSE Ok(definition.components[1].parameters[s[1]].item)

ResolveParameter(definition, reference) ==
    LET key == LastSegment(reference)
    IN  IF definition.components = None THEN Panic(MissingReference)
        ELSE LET table == definition.components[1].parameters
             IN  IF key \notin DOMAIN table THEN Panic(MissingReference)
                 ELSE IF table[key].kind # "Item" THEN Panic(MissingReference)
                 ELSE Ok(table[key].item)

PathArg(names, types) == [kind |-> "Path", names |-> names, types |-> types]

generate_path_args(definition, parameters) ==
    LET resolved == Collect([i \in 1..Len(parameters) |->
                       IF parameters[i].kind = "Reference"
                       THEN ResolveParameter(definition, parameters[i].reference)
                       ELSE Ok(parameters[i].item)])
    IN  IF ~resolved.ok THEN resolved
        ELSE LET ps == resolved.val
                 path_names == [i \in 1..Len(ps) |-> to_snake_case(ps[i].name)]
                 path_types == Collect([i \in 1..Len(ps) |-> get_parameter_type(ps[i])])
             IN  IF ~path_types.ok THEN path_types
                 ELSE IF path_names # <<>>
                      THEN Ok(Some(PathArg(path_names, path_types.val)))
                 ELSE Ok(None)

(***************************************************************************)
(* generate_operation_docs (lines 150-176); WrapWidth is the 80 of line    *)
(* 168.                                                                    *)
(***************************************************************************)
WrapWidth == 80

DocHeader(method, path) ==
    <<" ", "[">> \o to_uppercase(method) \o <<"]", " ">> \o path

docs_at_width(method, path, operation, width) ==
    LET first == <<Some(DocHeader(method, path))>>
        summary == <<IF IsSome(operation.summary)
                     THEN Some(<<" ">> \o operation.summary[1])
                     ELSE None>>
        desc == IF IsSome(operation.description)
                THEN LET ls == wrap(operation.description[1], width)
                     IN  [i \in 1..Len(ls) |-> Some(<<" ">> \o ls[i])]
                ELSE <<>>
    IN  Flatten(first \o summary \o desc)

generate_operation_docs_summary_last(method, path, operation) ==
    LET d == docs_at_width(method, path, operation, WrapWidth)
    IN  IF IsSome(operation.summary)
        THEN <<d[1]>> \o SubSeq(d, 3, Len(d)) \o <<d[2]>>
        ELSE d

generate_operation_docs(method, path, operation) ==
    docs_at_width(method, path, operation, WrapWidth)

(***************************************************************************)
(* generate_operation_args (lines 178-247).                                *)
(***************************************************************************)
\* "State(state): State<ApiState>" (line 186)
StateArg == [kind |-> "State", names |-> <<>>, types |-> <<>>]
\* Query( #ident ) : Query<#ty> (line 211)
QueryArg(ident, ty) == [kind |-> "Query", names |-> <<ident>>, types |-> <<ty>>]
\* "Json(request): Json<TODO>" and "Form(request): Form<TODO>" (lines 229, 233)
JsonArg == [kind |-> "Json", names |-> <<>>, types |-> <<"TODO">>]
FormArg == [kind |-> "Form", names |-> <<>>, types |-> <<"TODO">>]

\* lines 194-208: one operation-scoped parameter
operation_arg(parameter_or_ref) ==
    IF parameter_or_ref.kind = "Reference" THEN Panic(Unsupported)
    ELSE LET ty == get_parameter_type(parameter_or_ref.item)
         IN  IF ~ty.ok THEN ty
             ELSE Ok(QueryArg(to_snake_case(parameter_or_ref.item.name), ty.val))

\* lines 215-240: the request body's binder, an Option
request_arg_any_media(request_body) ==
    IF request_body = None THEN Ok(None)
    ELSE IF request_body[1].kind = "Reference" THEN Panic(Unsupported)
    ELSE IF request_body[1].item.content = <<>> THEN Ok(None)
    ELSE IF \E i \in 1..Len(request_body[1].item.content) :
               request_body[1].item.content[i] = "application/json"
         THEN Ok(Some(JsonArg))
    ELSE IF \E i \in 1..Len(request_body[1].item.content) :
               request_body[1].item.content[i] = "application/x-www-form-urlencoded"
         THEN Ok(Some(FormArg))
    ELSE Panic(Unsupported)

request_arg(request_body) ==
    IF request_body = None THEN Ok(None)
    ELSE IF request_body[1].kind = "Reference" THEN Panic(Unsupported)
    ELSE LET content == request_body[1].item.content
         IN  IF content = <<>> THEN Ok(None)
             ELSE IF content[1] = "application/json" THEN Ok(Some(JsonArg))
             ELSE IF content[1] = "application/x-www-form-urlencoded"
                  THEN Ok(Some(FormArg))
             ELSE Panic(Unsupported)

operation_args_with(path_args, operation, body) ==
    LET queries == Collect([i \in 1..Len(operation.parameters) |->
                               operation_arg(operation.parameters[i])])
    IN  IF ~queries.ok THEN queries
        ELSE IF ~body.ok THEN body
        ELSE Ok(<<StateArg>> \o path_args \o queries.val \o body.val)

generate_operation_args_path_last(path_args, operation) ==
    LET r == operation_args_with(<<>>, operation, request_arg(operation.request_body))
    IN  IF r.ok THEN Ok(r.val \o path_args) ELSE r

generate_operation_args_any_media(path_args, operation) ==
    operation_args_with(path_args, operation,
                        request_arg_any_media(operation.request_body))

generate_operation_args(path_args, operation) ==
    operation_args_with(path_args, operation, request_arg(operation.request_body))

(***************************************************************************)
(* OapiState.methods: a BTreeMap<String, Item> (lines 8-12), the sequence  *)
(* of its [key, value] entries in ascending key order.                     *)
(***************************************************************************)
contains_key(map, key) == \E i \in 1..Len(map) : map[i].key = key

Keys(map) == [i \in 1..Len(map) |-> map[i].key]
\* BTreeMap::values (line 69)
values(map) == [i \in 1..Len(map) |-> map[i].value]

\* An insert that keeps the order of insertion, as a Vec or an IndexMap would.
insert_at_end(map, key, value) ==
    IF contains_key(map, key)
    THEN [i \in 1..Len(map) |->
            IF map[i].key = key THEN [key |-> key, value |-> value] ELSE map[i]]
    ELSE Append(map, [key |-> key, value |-> value])

\* BTreeMap::insert (line 35): the entry replaces one of the same key
insert(map, key, value) ==
    IF contains_key(map, key)
    THEN [i \in 1..Len(map) |->
            IF map[i].key = key THEN [key |-> key, value |-> value] ELSE map[i]]
    ELSE LET n == Cardinality({i \in 1..Len(map) : StrLess(map[i].key, key)})
         IN  SubSeq(map, 1, n) \o <<[key |-> key, value |-> value]>>
               \o SubSeq(map, n + 1, Len(map))

(***************************************************************************)
(* OapiState::add_method (lines 31-37).                                    *)
(***************************************************************************)
add_method_overwrite(map, name, method) == Ok(insert(map, name, method))

add_method(map, name, method) ==
    IF contains_key(map, name) THEN Panic(DuplicateName)
    ELSE Ok(insert(map, name, method))

(***************************************************************************)
(* generate_operation (lines 253-276): the registry after the call, or the *)
(* panic.  The generated Item is [docs, ident, args, output, block].       *)
(***************************************************************************)
\* generate_operation_response (lines 249-251)
generate_operation_response == "-> Result<TODO, TODO>"

FnItem(docs, ident, args) ==
    [docs |-> docs, ident |-> ident, args |-> args,
     output |-> generate_operation_response, block |-> "todo!();"]

generate_operation(map, path_args, method, path, operation) ==
    LET operation_docs == generate_operation_docs(method, path, operation)
    IN  IF operation.operation_id = None THEN Panic(MissingOperationId)
        ELSE LET operation_name == to_snake_case(operation.operation_id[1])
                 operation_args == generate_operation_args(path_args, operation)
             IN  IF ~operation_args.ok THEN operation_args
                 ELSE add_method(map, operation_name,
                                 FnItem(operation_docs, operation_name,
                                        operation_args.val))

(***************************************************************************)
(* MethodsIterator (lines 278-337).  One call of next from the step        *)
(* counter `s`: [item, step, loops], the Option it returns, the counter    *)
(* after the call and the number of turns of its loop.                     *)
(***************************************************************************)
U8Max == 255
saturating_add(a, b) == IF a + b > U8Max THEN U8Max ELSE a + b

\* The method names of lines 298-328, by step.
StepMethods == <<<<"o","p","t","i","o","n","s">>, <<"h","e","a","d">>,
                 <<"g","e","t">>, <<"p","o","s","t">>,
                 <<"d","e","l","e","t","e">>, <<"p","a","t","c","h">>,
                 <<"t","r","a","c","e">>>>

RECURSIVE next_loop(_, _, _)
next_loop(path_item, s, loops) ==
    IF s > 6 THEN [item |-> None, step |-> s, loops |-> loops]
    ELSE LET m == IF path_item.ops[StepMethods[s + 1]] # None
                  THEN Some([method |-> StepMethods[s + 1],
                             operation |-> path_item.ops[StepMethods[s + 1]][1]])
                  ELSE None
             s1 == saturating_add(s, 1)
         IN  IF IsSome(m) THEN [item |-> m, step |-> s1, loops |-> loops + 1]
             ELSE next_loop(path_item, s1, loops + 1)

MethodsIterator_next_no_advance(path_item, s) ==
    LET r == next_loop(path_item, s, 0)
    IN  IF IsSome(r.item) THEN [r EXCEPT !.step = r.step - 1] ELSE r

MethodsIterator_next(path_item, s) == next_loop(path_item, s, 0)

(***************************************************************************)
(* The documents of the model.                                             *)
(***************************************************************************)
Param(name, required, format) ==
    [name |-> name, required |-> required, format |-> format]

Body(content) == Item([content |-> content])

Op(id, summary, description, parameters, request_body) ==
    [operation_id |-> id, summary |-> summary, description |-> description,
     parameters |-> parameters, request_body |-> request_body]

\* PathItem.ops from a set of [method, operation]
OpsOf(pairs) ==
    [m \in MethodSet |->
        IF \E r \in pairs : r.method = m
        THEN Some((CHOOSE r \in pairs : r.method = m).operation)
        ELSE None]

OpAt(method, operation) == [method |-> method, operation |-> operation]

PathItem(parameters, ops) == Item([parameters |-> parameters, ops |-> ops])

\* "#/components/parameters/"
RefPrefix == <<"#","/","c","o","m","p","o","n","e","n","t","s","/",
               "p","a","r","a","m","e","t","e","r","s","/">>

Rep(c, n) == [i \in 1..n |-> c]

SeqsUpTo(S, n) == UNION {[1..k -> S] : k \in 0..n}

GET == PathItemMethods[1]
PUT == PathItemMethods[2]
POST == PathItemMethods[3]
DELETE == PathItemMethods[4]
OPTIONS == PathItemMethods[5]
HEAD == PathItemMethods[6]
PATCH == PathItemMethods[7]
TRACE == PathItemMethods[8]

IdParam == Param(<<"i","d">>, TRUE, "Integer")
UserNameParam == Param(<<"u","s","e","r","N","a","m","e">>, FALSE, "String")
MaxAgeParam == Param(<<"m","a","x","-","a","g","e">>, FALSE, "Number")
FilterParam == Param(<<"f","i","l","t","e","r">>, TRUE, "Object")
TagsParam == Param(<<"t","a","g","s">>, FALSE, "Array")

\* components.parameters of the documents of generate: X is a parameter
MainComponents == Some([parameters |-> [k \in {<<"X">>} |-> Item(UserNameParam)]])

OpGetUser == Op(Some(<<"g","e","t","U","s","e","r">>), Some(<<"G","e","t">>),
                None, <<>>, None)
OpGet_user == Op(Some(<<"g","e","t","_","u","s","e","r">>), None,
                 Some(<<"s","a","m","e">>), <<>>, None)
OpDelUser == Op(Some(<<"d","e","l","U","s","e","r">>), None, None,
                <<Item(MaxAgeParam)>>, Some(Body(<<"application/json">>)))
OpPutUser == Op(Some(<<"p","u","t","U","s","e","r">>), None, None,
                <<Item(IdParam)>>, Some(Body(<<"application/json">>)))
OpListUsers == Op(Some(<<"A","l","l","U","s","e","r","s">>), None, None,
                  <<Item(UserNameParam)>>, None)
OpPutFilter == Op(Some(<<"p","u","t","F","i","l","t","e","r">>), None, None,
                  <<Item(FilterParam)>>, None)
OpFind == Op(Some(<<"f","i","n","d">>), None, None, <<Item(FilterParam)>>, None)
OpNoId == Op(None, None, None, <<>>, None)
OpGetUserTags == Op(Some(<<"G","e","t","U","s","e","r">>), None, None,
                    <<Item(TagsParam)>>, None)
OpAddUser == Op(Some(<<"a","d","d","U","s","e","r">>), None, None, <<>>,
                Some(Body(<<"text/xml">>)))
OpCreateUser == Op(Some(<<"C","r","e","a","t","e","-","u","s","e","r">>), None,
                   None, <<Item(IdParam), Item(MaxAgeParam)>>,
                   Some(Body(<<"application/x-www-form-urlencoded">>)))

MainOps == {
    OpsOf({OpAt(GET, OpGetUser), OpAt(DELETE, OpDelUser)}),
    OpsOf({OpAt(POST, OpGet_user)}),
    OpsOf({OpAt(PUT, OpPutUser)}),
    OpsOf({OpAt(GET, OpListUsers), OpAt(PUT, OpPutFilter)}),
    OpsOf({OpAt(HEAD, OpFind)}),
    OpsOf({OpAt(OPTIONS, OpNoId)}),
    OpsOf({OpAt(PATCH, OpGetUserTags)}),
    OpsOf({OpAt(TRACE, OpAddUser)}),
    OpsOf({OpAt(OPTIONS, OpCreateUser), OpAt(POST, OpListUsers)}),
    OpsOf({}) }

SharedGood == <<Item(IdParam), Reference(RefPrefix \o <<"X">>)>>

PathItems ==
    {PathItem(s, o) : s \in {<<>>, SharedGood}, o \in MainOps}
    \cup {PathItem(<<Item(IdParam), Item(FilterParam)>>,
                   OpsOf({OpAt(GET, OpGetUser), OpAt(DELETE, OpDelUser)})),
          PathItem(<<Reference(RefPrefix \o <<"Y">>)>>,
                   OpsOf({OpAt(GET, OpGetUser), OpAt(DELETE, OpDelUser)})),
          Reference(<<"#","/","p">>)}

PathName(i) == <<"/", LowerChars[i]>>

Docs == {[paths |-> [i \in 1..Len(es) |-> [name |-> PathName(i), entry |-> es[i]]],
          components |-> MainComponents] : es \in SeqsUpTo(PathItems, MaxPaths)}

(***************************************************************************)
(* generate (lines 40-76) as a state machine.  pc is the place of the run: *)
(*   "path"  at the head of the loop of line 44, on paths[pi]              *)
(*   "iter"  at the head of the loop of line 53                            *)
(*   "op"    in the body of the loop of line 53, on `yielded`              *)
(*   "emit"  at line 67, past both loops                                   *)
(*   "done"  returned Ok(files);  "panic"  unwound                         *)
(* origin records, for every entry of the registry, the path and method    *)
(* it was generated from (a history variable).                             *)
(***************************************************************************)
Running == [status |-> "running", kind |-> "none", files |-> <<>>]
Returned(files) == [status |-> "ok", kind |-> "none", files |-> files]
Panicked(kind) == [status |-> "panic", kind |-> kind, files |-> <<>>]

NoCall == [fn |-> "none"]
NoRet == [state |-> "none"]

\* "somefile.rs" (line 73)
SomeFile == <<"s","o","m","e","f","i","l","e",".","r","s">>

StartOf(d) == IF Len(d.paths) = 0 THEN "emit" ELSE "path"

\* lines 41-42: the state of a run at its start
StartRun(d) ==
    /\ doc' = d
    /\ pc' = StartOf(d)
    /\ pi' = 1
    /\ step' = 0
    /\ yielded' = None
    /\ path_arguments' = None
    /\ methods' = <<>>
    /\ origin' = <<>>
    /\ result' = Running

Init ==
    /\ doc \in Docs
    /\ pc = StartOf(doc)
    /\ pi = 1
    /\ step = 0
    /\ yielded = None
    /\ path_arguments = None
    /\ methods = <<>>
    /\ origin = <<>>
    /\ result = Running
    /\ run = "first"
    /\ first_files = <<>>
    /\ call = NoCall
    /\ ret = NoRet
    /\ yields = <<>>
    /\ ncalls = 0

CurrentPath == doc.paths[pi]

Abort(kind) ==
    /\ pc' = "panic"
    /\ result' = Panicked(kind)

\* lines 44-53: one path entry, up to MethodsIterator::new
GeneratePath ==
    /\ pc = "path"
    /\ IF CurrentPath.entry.kind = "Reference"
       THEN /\ Abort(Unsupported)
            /\ UNCHANGED <<path_arguments, step>>
       ELSE LET r == generate_path_args(doc, CurrentPath.entry.item.parameters)
            IN  IF r.ok
                THEN /\ path_arguments' = r.val
                     /\ step' = 0
                     /\ pc' = "iter"
                     /\ UNCHANGED result
                ELSE /\ Abort(r.err)
                     /\ UNCHANGED <<path_arguments, step>>
    /\ UNCHANGED <<doc, pi, yielded, methods, origin, run, first_files,
                   call, ret, yields, ncalls>>

\* line 53: one call of MethodsIterator::next by the for loop
IterNext ==
    /\ pc = "iter"
    /\ LET r == MethodsIterator_next(CurrentPath.entry.item, step)
       IN  /\ step' = r.step
           /\ yielded' = r.item
           /\ IF IsSome(r.item)
              THEN /\ pc' = "op"
                   /\ pi' = pi
              ELSE /\ pi' = pi + 1
                   /\ pc' = IF pi + 1 > Len(doc.paths) THEN "emit" ELSE "path"
    /\ UNCHANGED <<doc, path_arguments, methods, origin, result, run,
                   first_files, call, ret, yields, ncalls>>

\* lines 54-61: generate_operation on the pair the iterator gave
GenerateOperation ==
    /\ pc = "op"
    /\ LET method == yielded[1].method
           operation == yielded[1].operation
           r == generate_operation(methods, path_arguments, method,
                                   CurrentPath.name, operation)
       IN  IF r.ok
           THEN /\ methods' = r.val
                /\ origin' = Append(origin,
                      [key |-> to_snake_case(operation.operation_id[1]),
                       path |-> CurrentPath.name, method |-> method,
                       operation |-> operation])
                /\ pc' = "iter"
                /\ UNCHANGED result
           ELSE /\ Abort(r.err)
                /\ UNCHANGED <<methods, origin>>
    /\ UNCHANGED <<doc, pi, step, yielded, path_arguments, run, first_files,
                   call, ret, yields, ncalls>>

\* lines 67-75: the file of the registry's values, under "somefile.rs"
Emit ==
    /\ pc = "emit"
    /\ LET file == [attrs |-> <<>>, items |-> values(methods), shebang |-> None]
       IN  result' = Returned(insert(<<>>, SomeFile, file.items))
    /\ pc' = "done"
    /\ UNCHANGED <<doc, pi, step, yielded, path_arguments, methods, origin,
                   run, first_files, call, ret, yields, ncalls>>

Orders(n) == {f \in [1..n -> 1..n] : \A i, j \in 1..n : f[i] = f[j] => i = j}

\* A second run of generate, on the same paths listed in any order.
Rerun ==
    /\ pc = "done"
    /\ run = "first"
    /\ \E f \in Orders(Len(doc.paths)) :
          StartRun([doc EXCEPT !.paths = [i \in 1..Len(doc.paths) |-> doc.paths[f[i]]]])
    /\ run' = "second"
    /\ first_files' = result.files
    /\ UNCHANGED <<call, ret, yields, ncalls>>

Next == GeneratePath \/ IterNext \/ GenerateOperation \/ Emit \/ Rerun

Spec == Init /\ [][Next]_vars

(***************************************************************************)
(* The functions of the generator, each applied to inputs drawn from       *)
(* bounded sets: call is the call, ret what it returned.                   *)
(***************************************************************************)
IdleDoc == [paths |-> <<>>, components |-> None]

Idle ==
    /\ doc = IdleDoc
    /\ pc = "idle"
    /\ pi = 1
    /\ step = 0
    /\ yielded = None
    /\ path_arguments = None
    /\ methods = <<>>
    /\ origin = <<>>
    /\ result = Running
    /\ run = "first"
    /\ first_files = <<>>
    /\ yields = <<>>
    /\ ncalls = 0

UnitNames == {<<"i","d">>, <<"u","s","e","r","N","a","m","e">>,
              <<"m","a","x","-","a","g","e">>}

UnitParams == {Param(n, r, f) : n \in UnitNames, r \in BOOLEAN, f \in ParamFormats}

Definition(components) == [paths |-> <<>>, components |-> components]

\* No component table; an empty one; X a parameter; X and W parameters and
\* Y an entry that is itself a reference.
UnitDefinitions ==
    {Definition(None),
     Definition(Some([parameters |-> <<>>])),
     Definition(MainComponents),
     Definition(Some([parameters |->
        [k \in {<<"X">>, <<"Y">>, <<"W">>} |->
            IF k = <<"X">> THEN Item(UserNameParam)
            ELSE IF k = <<"Y">> THEN Reference(RefPrefix \o <<"X">>)
            ELSE Item(FilterParam)]]))}

UnitListPool == {Item(IdParam), Item(UserNameParam), Item(FilterParam),
                 Reference(RefPrefix \o <<"X">>), Reference(RefPrefix \o <<"Y">>),
                 Reference(RefPrefix \o <<"Z">>), Reference(RefPrefix \o <<"W">>)}

UnitLists == {<<Item(p)>> : p \in UnitParams} \cup SeqsUpTo(UnitListPool, MaxParams)

UnitBodies == {None, Some(Reference(<<"#","/","b">>)), Some(Body(<<>>)),
               Some(Body(<<"application/json">>)),
               Some(Body(<<"application/x-www-form-urlencoded">>)),
               Some(Body(<<"text/xml">>)),
               Some(Body(<<"text/xml", "application/json">>)),
               Some(Body(<<"application/json", "text/xml">>))}

UnitPathArgs == {None, Some(PathArg(<<<<"i","d">>>>, <<"i64">>))}

UnitPaths == {<<"/","a">>,
              <<"/","u","s","e","r","s","/","{","i","d","}">>}

UnitSummaries == {None, Some(<<>>), Some(<<"G","e","t"," ","i","t">>)}

\* No description; the empty one; one word; two words of 80 and of 81
\* columns together; four words; one word of 81 columns.
UnitDescriptions ==
    {None, Some(<<>>), Some(Rep("x", 5)),
     Some(Rep("x", 40) \o <<" ">> \o Rep("y", 39)),
     Some(Rep("x", 40) \o <<" ">> \o Rep("y", 40)),
     Some(Rep("x", 30) \o <<" ">> \o Rep("y", 30) \o <<" ">>
            \o Rep("z", 30) \o <<" ">> \o Rep("w", 30)),
     Some(Rep("x", 81))}

NoOperation == Op(None, None, None, <<>>, None)

UnitCall(fn, parameter, definition, parameters, path_args, operation, method, path) ==
    [fn |-> fn, parameter |-> parameter, definition |-> definition,
     parameters |-> parameters, path_args |-> path_args,
     operation |-> operation, method |-> method, path |-> path]

UnitCalls ==
    {UnitCall("get_parameter_type", p, IdleDoc, <<>>, None, NoOperation, <<>>, <<>>) :
        p \in UnitParams}
    \cup {UnitCall("generate_path_args", IdParam, d, l, None, NoOperation, <<>>, <<>>) :
        d \in UnitDefinitions, l \in UnitLists}
    \cup {UnitCall("generate_operation_args", IdParam, IdleDoc, <<>>, a,
                   Op(None, None, None, l, b), <<>>, <<>>) :
        a \in UnitPathArgs, l \in UnitLists, b \in UnitBodies}
    \cup {UnitCall("generate_operation_docs", IdParam, IdleDoc, <<>>, None,
                   Op(None, s, d, <<>>, None), StepMethods[m], p) :
        m \in 1..Len(StepMethods), p \in UnitPaths, s \in UnitSummaries,
        d \in UnitDescriptions}

UnitInit ==
    /\ Idle
    /\ call \in UnitCalls
    /\ ret = NoRet

Return(value) ==
    /\ ret = NoRet
    /\ ret' = [state |-> "returned", value |-> value]
    /\ UNCHANGED <<doc, pc, pi, step, yielded, path_arguments, methods, origin,
                   result, run, first_files, call, yields, ncalls>>

CallGetParameterType ==
    /\ call.fn = "get_parameter_type"
    /\ Return(get_parameter_type(call.parameter))

CallGeneratePathArgs ==
    /\ call.fn = "generate_path_args"
    /\ Return(generate_path_args(call.definition, call.parameters))

CallGenerateOperationArgs ==
    /\ call.fn = "generate_operation_args"
    /\ Return(generate_operation_args(call.path_args, call.operation))

CallGenerateOperationDocs ==
    /\ call.fn = "generate_operation_docs"
    /\ Return(Ok(generate_operation_docs(call.method, call.path, call.operation)))

UnitNext == \/ CallGetParameterType
            \/ CallGeneratePathArgs
            \/ CallGenerateOperationArgs
            \/ CallGenerateOperationDocs

SpecUnit == UnitInit /\ [][UnitNext]_vars

(***************************************************************************)
(* One MethodsIterator, next called on it again and again, also after it   *)
(* returned None.  yields lists what the calls returned as Some.           *)
(***************************************************************************)
\* The operation a path item of this specification holds under a method.
OpNamed(method) == Op(Some(method), None, None, <<>>, None)

IterPathItems ==
    {[parameters |-> <<>>,
      ops |-> [m \in MethodSet |-> IF m \in present THEN Some(OpNamed(m)) ELSE None]] :
        present \in SUBSET MethodSet}

IterInit ==
    /\ Idle
    /\ call \in {[fn |-> "MethodsIterator", path_item |-> p] : p \in IterPathItems}
    /\ ret = NoRet

\* MethodsIterator::next (lines 292-336), one call
CallNext ==
    /\ ncalls < MaxCalls
    /\ LET r == MethodsIterator_next(call.path_item, step)
       IN  /\ step' = r.step
           /\ yielded' = r.item
           /\ ret' = [state |-> "returned", value |-> r]
           /\ yields' = IF IsSome(r.item) THEN Append(yields, r.item[1]) ELSE yields
    /\ ncalls' = ncalls + 1
    /\ UNCHANGED <<doc, pc, pi, path_arguments, methods, origin, result, run,
                   first_files, call>>

IterCalls == CallNext

SpecIter == IterInit /\ [][IterCalls]_vars

(***************************************************************************)
(* Properties of the functions (SpecUnit).                                 *)
(***************************************************************************)
Returned_(fn) == call.fn = fn /\ ret.state = "returned"

BaseType == [f \in ScalarFormats |->
                IF f = "String" THEN "String"
                ELSE IF f = "Number" THEN "f64"
                ELSE IF f = "Integer" THEN "i64"
                ELSE "bool"]

ExpectedType(p) == IF p.required THEN BaseType[p.format]
                   ELSE "Option<" \o BaseType[p.format] \o ">"

IsScalarItem(por) == por.kind = "Item" /\ por.item.format \in ScalarFormats

\* C4: a scalar parameter of kind k resolves to BaseType[k] when it is
\* required and to Option<BaseType[k]> when it is not, in a direct call of
\* get_parameter_type, in the tuple binder of generate_path_args and in the
\* Query binders of generate_operation_args alike.
C4_ScalarTypeMapping ==
    /\ Returned_("get_parameter_type") /\ call.parameter.format \in ScalarFormats
         => ret.value = Ok(ExpectedType(call.parameter))
    /\ Returned_("generate_path_args") /\ ret.value.ok /\ call.parameters # <<>>
         => /\ Len(ret.value.val[1].types) = Len(call.parameters)
            /\ \A i \in 1..Len(call.parameters) :
                 call.parameters[i].kind = "Item"
                   => ret.value.val[1].types[i] = ExpectedType(call.parameters[i].item)
    /\ Returned_("generate_operation_args") /\ ret.value.ok
         => \A i \in 1..Len(call.operation.parameters) :
              ret.value.val[1 + Len(call.path_args) + i].types
                = <<ExpectedType(call.operation.parameters[i].item)>>

C4_Witness ==
    /\ Returned_("generate_path_args")
    /\ ret.value.ok
    /\ call.parameters = <<Item(IdParam), Item(UserNameParam)>>
    /\ ret.value.val[1].types = <<"i64", "Option<String>">>

\* The method names in upper case, written out.
UpperMethod(method) ==
    CASE method = <<"o","p","t","i","o","n","s">> -> <<"O","P","T","I","O","N","S">>
      [] method = <<"h","e","a","d">> -> <<"H","E","A","D">>
      [] method = <<"g","e","t">> -> <<"G","E","T">>
      [] method = <<"p","o","s","t">> -> <<"P","O","S","T">>
      [] method = <<"d","e","l","e","t","e">> -> <<"D","E","L","E","T","E">>
      [] method = <<"p","a","t","c","h">> -> <<"P","A","T","C","H">>
      [] method = <<"t","r","a","c","e">> -> <<"T","R","A","C","E">>

NonSpaces(s) == SelectSeq(s, LAMBDA c : c # " ")

\* `lines` are the lines of `text` wrapped at `width`, each behind one space:
\* no line is wider, none starts or ends with a space of the text, the lines
\* hold the characters of the text in order, and every space of the text is
\* inside a line or at a line break.
IsWrapped(lines, text, width) ==
    /\ Len(lines) >= 1
    /\ \A i \in 1..Len(lines) :
         /\ Len(lines[i]) >= 1
         /\ lines[i][1] = " "
         /\ Len(lines[i]) - 1 <= width
         /\ Len(lines[i]) > 1 => lines[i][2] # " " /\ lines[i][Len(lines[i])] # " "
    /\ Flatten([i \in 1..Len(lines) |-> NonSpaces(lines[i])]) = NonSpaces(text)
    /\ LET inner == Len(Flatten(lines)) - Len(lines)
                         - Len(Flatten([i \in 1..Len(lines) |-> NonSpaces(lines[i])]))
           spaces == Len(text) - Len(NonSpaces(text))
       IN  inner <= spaces /\ spaces <= inner + (Len(lines) - 1)

\* C7: the doc lines are the line [METHOD] /path, then the summary exactly
\* when there is one, then the description's lines wrapped at 80 columns
\* exactly when there is a description, and nothing else.
C7_DocLines ==
    Returned_("generate_operation_docs") =>
        LET d == ret.value.val
            op == call.operation
            n == IF IsSome(op.summary) THEN 2 ELSE 1
        IN  /\ Len(d) >= n
            /\ d[1] = <<" ", "[">> \o UpperMethod(call.method) \o <<"]", " ">>
                        \o call.path
            /\ IsSome(op.summary) => d[2] = <<" ">> \o op.summary[1]
            /\ IF IsSome(op.description)
               THEN IsWrapped(SubSeq(d, n + 1, Len(d)), op.description[1], 80)
               ELSE Len(d) = n

C7_Witness ==
    /\ Returned_("generate_operation_docs")
    /\ IsSome(call.operation.summary)
    /\ IsSome(call.operation.description)
    /\ Len(ret.value.val) = 4
    /\ Len(ret.value.val[3]) = 62

IsBodyBinder(arg) == arg.kind \in {"Json", "Form"}

BodyBinders(args) == {i \in 1..Len(args) : IsBodyBinder(args[i])}

ParametersSupported(operation) ==
    \A i \in 1..Len(operation.parameters) : IsScalarItem(operation.parameters[i])

\* C9 as claimed: an operation that declares a request body gets exactly one
\* body binder, the last argument, or the call aborts with Unsupported.
C9_BodyBinderForEveryBody ==
    Returned_("generate_operation_args") /\ IsSome(call.operation.request_body) =>
        \/ /\ ret.value.ok
           /\ Cardinality(BodyBinders(ret.value.val)) = 1
           /\ IsBodyBinder(ret.value.val[Len(ret.value.val)])
        \/ /\ ~ret.value.ok
           /\ ret.value.err = Unsupported

\* C9, amended: the first media type of the request body decides.  A body
\* whose first media type is application/json gives the binder Json<TODO>,
\* application/x-www-form-urlencoded gives Form<TODO>, each as the one body
\* binder and the last argument; any other first media type (or a body given
\* by reference) aborts with Unsupported; no request body, or one that lists
\* no media type, gives no body binder.
C9_BodyBinderByFirstMediaType ==
    Returned_("generate_operation_args") =>
        LET op == call.operation
            body == op.request_body
            declared == IsSome(body) /\ body[1].kind = "Item"
                          /\ body[1].item.content # <<>>
            first == body[1].item.content[1]
            args == ret.value.val
        IN  IF ~ParametersSupported(op)
            THEN ~ret.value.ok /\ ret.value.err = Unsupported
            ELSE IF body = None \/ (body[1].kind = "Item" /\ body[1].item.content = <<>>)
            THEN ret.value.ok /\ BodyBinders(args) = {}
            ELSE IF declared /\ first = "application/json"
            THEN /\ ret.value.ok
                 /\ BodyBinders(args) = {Len(args)}
                 /\ args[Len(args)] = [kind |-> "Json", names |-> <<>>, types |-> <<"TODO">>]
            ELSE IF declared /\ first = "application/x-www-form-urlencoded"
            THEN /\ ret.value.ok
                 /\ BodyBinders(args) = {Len(args)}
                 /\ args[Len(args)] = [kind |-> "Form", names |-> <<>>, types |-> <<"TODO">>]
            ELSE ~ret.value.ok /\ ret.value.err = Unsupported

C9_Witness ==
    /\ Returned_("generate_operation_args")
    /\ call.operation.request_body = Some(Body(<<"application/json", "text/xml">>))
    /\ Len(call.operation.parameters) = 2
    /\ ret.value.ok
    /\ ret.value.val[Len(ret.value.val)].kind = "Json"

\* The key a reference of the model names: the text behind RefPrefix.
KeyOf(reference) == SubSeq(reference, Len(RefPrefix) + 1, Len(reference))

EntryExists(definition, reference) ==
    /\ definition.components # None
    /\ KeyOf(reference) \in DOMAIN definition.components[1].parameters

Resolves(definition, reference) ==
    /\ EntryExists(definition, reference)
    /\ definition.components[1].parameters[KeyOf(reference)].kind = "Item"

References(parameters) ==
    {parameters[i].reference : i \in {j \in 1..Len(parameters) :
                                        parameters[j].kind = "Reference"}}

\* The list with every reference replaced by the parameter declared inline.
Inlined(definition, parameters) ==
    [i \in 1..Len(parameters) |->
        IF parameters[i].kind = "Reference"
        THEN Item(definition.components[1].parameters[KeyOf(parameters[i].reference)].item)
        ELSE parameters[i]]

\* C10 as claimed: when every referenced entry exists the list gives what
\* the inline list gives, and no Missing-reference abort.
C10_ExistingEntryIsUsed ==
    Returned_("generate_path_args") =>
        IF \A r \in References(call.parameters) : EntryExists(call.definition, r)
        THEN ~(~ret.value.ok /\ ret.value.err = MissingReference)
        ELSE ret.value = Panic(MissingReference)

\* C10, amended: when every reference of the list names an entry of the
\* component table that is a parameter, the call returns what it returns for
\* the list with each reference replaced by that parameter, declared inline
\* at its place; when some reference does not resolve (no component table,
\* no entry of that name, or an entry that is itself a reference) the call
\* aborts with MissingReference.
C10_ReferenceResolution ==
    Returned_("generate_path_args") =>
        IF \A r \in References(call.parameters) : Resolves(call.definition, r)
        THEN LET inline == Inlined(call.definition, call.parameters)
                 expected == generate_path_args(call.definition, inline)
             IN  /\ ret.value = expected
                 /\ ret.value.ok /\ call.parameters # <<>> =>
                      ret.value.val[1].names =
                        [i \in 1..Len(inline) |-> to_snake_case(inline[i].item.name)]
        ELSE ret.value = Panic(MissingReference)

C10_Witness ==
    /\ Returned_("generate_path_args")
    /\ call.parameters = <<Item(IdParam), Reference(RefPrefix \o <<"X">>)>>
    /\ ret.value.ok
    /\ ret.value.val[1].types = <<"i64", "Option<String>">>

(***************************************************************************)
(* Properties of MethodsIterator (SpecIter).                               *)
(***************************************************************************)
\* The seven methods the iterator is to visit, in their priority order.
SevenMethods == <<<<"o","p","t","i","o","n","s">>, <<"h","e","a","d">>,
                  <<"g","e","t">>, <<"p","o","s","t">>,
                  <<"d","e","l","e","t","e">>, <<"p","a","t","c","h">>,
                  <<"t","r","a","c","e">>>>

\* The (method, operation) pairs of a path item under the seven methods.
ExpectedYields(path_item) ==
    LET present == SelectSeq(SevenMethods, LAMBDA m : path_item.ops[m] # None)
    IN  [i \in 1..Len(present) |->
            [method |-> present[i], operation |-> path_item.ops[present[i]][1]]]

IsPrefix(a, b) == Len(a) <= Len(b) /\ a = SubSeq(b, 1, Len(a))

\* Some call has returned None.
Ended == ncalls > Len(yields)

IterState ==
    /\ step <= 7
    /\ IsPrefix(yields, ExpectedYields(call.path_item))
    /\ Ended => yields = ExpectedYields(call.path_item) /\ step = 7
    /\ ret.state = "returned" => ret.value.loops <= 7
    /\ ret.state = "returned" /\ IsSome(ret.value.item) =>
         ret.value.item[1] = yields[Len(yields)]

IterStep ==
    /\ step' >= step
    /\ Ended => Ended' /\ yields' = yields /\ yielded' = None /\ step' = step

\* C8: the calls of next yield exactly the operations present under
\* options, head, get, post, delete, patch, trace, each once and in that
\* order; the call after the last of them returns None within seven turns
\* of the loop, and so does every later call; the step counter never
\* exceeds 7 and never decreases.
C8_IteratorOrder == [](call.fn = "MethodsIterator" => IterState)
                      /\ [][call.fn = "MethodsIterator" => IterStep]_vars

C8_Witness ==
    /\ call.fn = "MethodsIterator"
    /\ call.path_item.ops[PUT] # None
    /\ Len(yields) = 3
    /\ yields[1].method = <<"h","e","a","d">>
    /\ yields[3].method = <<"t","r","a","c","e">>
    /\ ncalls = Len(yields) + 3

(***************************************************************************)
(* Properties of generate (Spec).                                          *)
(***************************************************************************)
Finished == pc \in {"done", "panic"}

\* The operations a document declares: under every operation field of its
\* path items.
DeclaredOps(d) ==
    {<<i, m>> \in (1..Len(d.paths)) \X MethodSet :
        /\ d.paths[i].entry.kind = "Item"
        /\ d.paths[i].entry.item.ops[m] # None}

OpOf(d, im) == d.paths[im[1]].entry.item.ops[im[2]][1]

\* The shared parameter a list entry stands for.
SharedParam(d, por) ==
    IF por.kind = "Item" THEN por.item
    ELSE d.components[1].parameters[KeyOf(por.reference)].item

BodySupported(operation) ==
    \/ operation.request_body = None
    \/ /\ operation.request_body[1].kind = "Item"
       /\ operation.request_body[1].item.content # <<>>
       /\ operation.request_body[1].item.content[1]
            \in {"application/json", "application/x-www-form-urlencoded"}

\* Everything but the schemas of the parameters is as generate supports it:
\* path items and operation parameters inline, shared references resolving,
\* every operation with an identifier, the normalized names distinct, the
\* request bodies of a supported media type.
WellFormedButSchemas(d) ==
    /\ \A i \in 1..Len(d.paths) :
         /\ d.paths[i].entry.kind = "Item"
         /\ \A r \in References(d.paths[i].entry.item.parameters) : Resolves(d, r)
    /\ \A im \in DeclaredOps(d) :
         /\ OpOf(d, im).operation_id # None
         /\ \A k \in 1..Len(OpOf(d, im).parameters) :
              OpOf(d, im).parameters[k].kind = "Item"
         /\ BodySupported(OpOf(d, im))
    /\ \A a, b \in DeclaredOps(d) :
         a # b /\ OpOf(d, a).operation_id # None /\ OpOf(d, b).operation_id # None
           => to_snake_case(OpOf(d, a).operation_id[1])
                # to_snake_case(OpOf(d, b).operation_id[1])

AllParams(d) ==
    UNION {{SharedParam(d, d.paths[i].entry.item.parameters[k]) :
              k \in 1..Len(d.paths[i].entry.item.parameters)} :
           i \in 1..Len(d.paths)}
    \cup UNION {{OpOf(d, im).parameters[k].item :
                   k \in 1..Len(OpOf(d, im).parameters)} : im \in DeclaredOps(d)}

WellFormed(d) ==
    /\ WellFormedButSchemas(d)
    /\ \A p \in AllParams(d) : p.format \in ScalarFormats

\* The functions of the returned file.
EmittedItems == result.files[1].value

\* C1: on a well-formed document generate succeeds and the file holds one
\* function per declared operation: as many functions as operations, and
\* the normalized name of each operation exactly once.
C1_OneFunctionPerOperation ==
    Finished /\ WellFormed(doc) =>
        /\ result.status = "ok"
        /\ Len(EmittedItems) = Cardinality(DeclaredOps(doc))
        /\ \A im \in DeclaredOps(doc) :
             Cardinality({k \in 1..Len(EmittedItems) :
                            EmittedItems[k].ident
                              = to_snake_case(OpOf(doc, im).operation_id[1])}) = 1

\* C3: a document with a parameter of an object, array or content-based
\* schema, and nothing else unsupported, fails with Unsupported and returns
\* nothing; no run returns a file of only some of the operations.
C3_UnsupportedParameterFails ==
    /\ Finished /\ WellFormedButSchemas(doc)
         /\ (\E p \in AllParams(doc) : p.format \in NonScalarFormats)
         => result = Panicked(Unsupported)
    /\ result.status = "ok" => Len(EmittedItems) = Cardinality(DeclaredOps(doc))

KeysAscending(map) ==
    \A i, j \in 1..Len(map) : i < j => StrLess(map[i].key, map[j].key)

\* generate_operation is about to run on an operation whose normalized
\* identifier is a key of the registry.
DuplicateReached ==
    /\ pc = "op"
    /\ yielded[1].operation.operation_id # None
    /\ \E i \in 1..Len(methods) :
         methods[i].key = to_snake_case(yielded[1].operation.operation_id[1])

\* generate_operation_args returns on the operation: its parameters are
\* inline scalars and its request body is absent, lists no media type or
\* has a supported first media type.
ArgsSupported(operation) ==
    /\ ParametersSupported(operation)
    /\ \/ BodySupported(operation)
       \/ /\ operation.request_body # None
          /\ operation.request_body[1].kind = "Item"
          /\ operation.request_body[1].item.content = <<>>

NoOutput == pc = "panic" /\ result.status = "panic" /\ result.files = <<>>

\* C2 as claimed: the names of the registry are pairwise distinct, and
\* whenever generate_operation reaches an operation whose normalized
\* identifier is registered the registry stays as it is and the run fails
\* with DuplicateName and returns nothing.
C2_DuplicateAlwaysRejected ==
    [](KeysAscending(methods))
      /\ [][DuplicateReached =>
              methods' = methods /\ NoOutput' /\ result'.kind = DuplicateName]_vars

\* C2, amended: the names of the registry are pairwise distinct, and
\* whenever generate_operation reaches an operation whose normalized
\* identifier is registered and whose parameters and request body are all
\* supported, add_method rejects it: the registry stays as it is and the run
\* fails with DuplicateName and returns nothing.  When a parameter or the
\* request body of that operation is unsupported the run fails before
\* add_method is called, with Unsupported, the registry as it is and nothing
\* returned.
C2_DuplicateRejected ==
    [](KeysAscending(methods))
      /\ [][DuplicateReached =>
              /\ methods' = methods
              /\ NoOutput'
              /\ result'.kind =
                   IF ArgsSupported(yielded[1].operation)
                   THEN DuplicateName ELSE Unsupported]_vars

\* A run that failed on an identifier that differs from the registered one
\* and normalizes to the same name.
C2_Witness ==
    /\ pc = "panic"
    /\ result.kind = DuplicateName
    /\ IsSome(yielded)
    /\ Len(methods) = 2
    /\ \E i \in 1..Len(origin) :
         /\ origin[i].key = to_snake_case(yielded[1].operation.operation_id[1])
         /\ origin[i].operation.operation_id # yielded[1].operation.operation_id

\* The path entry of the document with a name.
PathNamed(name) ==
    doc.paths[CHOOSE i \in 1..Len(doc.paths) : doc.paths[i].name = name]

OriginOf(key) == origin[CHOOSE i \in 1..Len(origin) : origin[i].key = key]

\* The tuple binder of a list of shared parameters.
ExpectedBinder(shared) ==
    [kind |-> "Path",
     names |-> [k \in 1..Len(shared) |-> to_snake_case(SharedParam(doc, shared[k]).name)],
     types |-> [k \in 1..Len(shared) |-> ExpectedType(SharedParam(doc, shared[k]))]]

\* C5: every function generated for a path with shared parameters has, right
\* behind the state argument, the one tuple binder of the path's shared
\* parameters (normalized name and type of each, in the order declared),
\* the same for every method of the path; a function generated for a path
\* without shared parameters has no path binder.
C5_SharedPathBinder ==
    \A i \in 1..Len(methods) :
        LET args == methods[i].value.args
            shared == PathNamed(OriginOf(methods[i].key).path).entry.item.parameters
            binders == {k \in 1..Len(args) : args[k].kind = "Path"}
        IN  /\ args[1] = [kind |-> "State", names |-> <<>>, types |-> <<>>]
            /\ IF shared # <<>>
               THEN binders = {2} /\ args[2] = ExpectedBinder(shared)
               ELSE binders = {}

C5_Witness ==
    /\ pc = "done"
    /\ \E i, j \in 1..Len(methods) :
         /\ i # j
         /\ OriginOf(methods[i].key).path = OriginOf(methods[j].key).path
         /\ OriginOf(methods[i].key).method # OriginOf(methods[j].key).method
         /\ Len(methods[i].value.args) >= 2
         /\ methods[i].value.args[2].kind = "Path"
         /\ methods[i].value.args[2] = methods[j].value.args[2]
         /\ methods[i].value.args[2].types = <<"i64", "Option<String>">>

\* C6: the functions of a returned file are in ascending order of their
\* names, and a second run on the same paths, listed in any order, returns
\* the same files as the first.
C6_SortedAndDeterministic ==
    /\ result.status = "ok" =>
         \A i, j \in 1..Len(EmittedItems) :
            i < j => StrLess(EmittedItems[i].ident, EmittedItems[j].ident)
    /\ run = "second" /\ Finished => result.status = "ok" /\ result.files = first_files

\* A second run over the paths in another order, in which the functions were
\* registered in an order that is not the order of their names.
C6_Witness ==
    /\ run = "second"
    /\ pc = "done"
    /\ Len(doc.paths) = 2
    /\ doc.paths[1].name = PathName(2)
    /\ Len(EmittedItems) >= 3
    /\ [i \in 1..Len(origin) |-> origin[i].key] # Keys(methods)

====
